---- MODULE Spec2Model ----
(***************************************************************************)
(* Model of the community-agent orchestration core (GOV-HACK):            *)
(*   app/utils/storage.py   artifact store (save, list, TTL sweep)         *)
(*   app/utils/audit.py     audit log and consent ledger                   *)
(*   app/orchestrator.py    JourneyOrchestrator                            *)
(*   app/main.py            HTTP handlers and the in-memory stores         *)
(*                                                                         *)
(* Files are modelled by the function fs from paths to JSON documents,     *)
(* the audit log and the consent ledger by sequences, the clock            *)
(* (datetime.utcnow) by the integer now.  SHA-256 is modelled as an        *)
(* injective function: a digest is the value that was hashed.              *)
(***************************************************************************)
EXTENDS Integers, Sequences, FiniteSets, TLC

VARIABLES
  now,            \* datetime.utcnow(), in clock ticks
  fs,             \* the JSON files below the working directory: path -> document
  audit_log,      \* _artifacts/audit.log, one event per line
  ledger,         \* _artifacts/consent_ledger.json, the "consents" list
  journey_store,  \* main.journey_store: journey id -> Journey
  intake_store,   \* main.intake_store: journey id -> Intake
  resp,           \* what the last call returned to its caller
  returned,       \* the consents that log_consent calls have returned
  pc,             \* position of each concurrent log_consent caller
  loc,            \* local variables of each concurrent log_consent caller
  requests,       \* the calls a script is still to make on the orchestrator
  dirs,           \* the journey directories that exist below _artifacts/vault
  current_journey \* agent.current_journey: the Journey the agent works on

vars == <<now, fs, audit_log, ledger, journey_store, intake_store, resp,
          returned, pc, loc, requests,
          dirs, current_journey>>

-----------------------------------------------------------------------------
(* Bounds of the model *)

\* clock ticks per day (timedelta(days=1))
TicksPerDay == 1
\* number of clock ticks explored beyond one TTL after the start
FineTicks == 1
\* longest audit log explored
MaxLog == 3
\* longest consent ledger explored
MaxConsents == 2

(* Program constants *)

\* "ttl_days": 30 in the consent record
CONSENT_TTL_DAYS == 30
\* cleanup_expired_artifacts(ttl_days=30)
CLEANUP_TTL_DAYS == 30

\* timedelta(days=d)
timedelta(d) == d * TicksPerDay

\* the instants the clock is observed at: the start, one cleanup TTL later,
\* and the FineTicks ticks after that
Instants ==
  {0} \cup {timedelta(CLEANUP_TTL_DAYS) + k : k \in 0..FineTicks}

-----------------------------------------------------------------------------
(* Python values *)

\* None, for an optional object
None == [none |-> TRUE]
\* None, for an optional scalar (scalars are strings)
NoValue == "None"

-----------------------------------------------------------------------------
(* models.py: Intake and its groups, with the fields the orchestrator reads *)

Person(full_name, dob) == [full_name |-> full_name, dob |-> dob]

Baby(name, dob, place_of_birth) ==
  [name |-> name, dob |-> dob, place_of_birth |-> place_of_birth]

Employment(last_employer, last_work_date, skills_assessment) ==
  [last_employer |-> last_employer, last_work_date |-> last_work_date,
   skills_assessment |-> skills_assessment]

Disaster(type, date) == [type |-> type, date |-> date]

Housing(status) == [status |-> status]

Intake(parent1, parent2, baby, applicant, employment, disaster, housing) ==
  [parent1 |-> parent1, parent2 |-> parent2, baby |-> baby,
   applicant |-> applicant, employment |-> employment,
   disaster |-> disaster, housing |-> housing]

\* the intakes the callers send
Jane == Person("Jane Doe", "1990-01-01")

BirthIntake ==
  Intake(Jane, None, Baby(NoValue, "2025-08-28", "Westmead Hospital"),
         None, None, None, None)

\* the same stable fields as BirthIntake, another baby name
BirthIntakeNamed ==
  Intake(Jane, None, Baby("Ava", "2025-08-28", "Westmead Hospital"),
         None, None, None, None)

JobIntake ==
  Intake(None, None, None, Jane,
         Employment("Acme", NoValue, NoValue), None, None)

\* the intakes of two users, one per life event
Intakes == {BirthIntake, JobIntake}

\* the intake of the one family that drives the whole API
FamilyIntakes == {BirthIntake}

-----------------------------------------------------------------------------
(* orchestrator.py: classification, journey id, steps *)

\* hasattr(obj, key) for a pydantic object; None has no model attribute
hasattr(obj, key) == obj # None /\ key \in DOMAIN obj

\* truth value of an optional scalar
Truthy(v) == v # NoValue

_determine_life_event(intake) ==
  IF intake.baby # None /\ intake.parent1 # None THEN "baby_just_born"
  ELSE IF intake.employment # None /\ intake.applicant # None THEN "job_loss"
  ELSE IF intake.disaster # None /\ intake.applicant # None
       THEN "disaster_recovery"
  ELSE IF /\ intake.applicant # None
          /\ hasattr(intake, "carer_info")
          /\ intake.carer_info # None
       THEN "carer_support"
  ELSE "baby_just_born"

\* the string that _generate_journey_id hashes, as the sequence of the
\* strings it concatenates; t is the clock reading of the fallback branch
JourneyHashInput(intake, t) ==
  LET life_event == _determine_life_event(intake) IN
  IF life_event = "baby_just_born" /\ intake.baby # None /\ intake.parent1 # None
  THEN <<intake.baby.dob, intake.parent1.full_name>>
         \o (IF intake.parent2 # None THEN <<intake.parent2.full_name>> ELSE <<>>)
  ELSE IF life_event = "job_loss" /\ intake.applicant # None
  THEN <<intake.applicant.dob, intake.applicant.full_name>>
         \o (IF intake.employment # None /\ Truthy(intake.employment.last_work_date)
             THEN <<intake.employment.last_work_date>> ELSE <<>>)
  ELSE IF life_event = "disaster_recovery" /\ intake.applicant # None
  THEN <<intake.applicant.dob, intake.applicant.full_name>>
         \o (IF intake.disaster # None /\ Truthy(intake.disaster.date)
             THEN <<intake.disaster.date>> ELSE <<>>)
  ELSE IF life_event = "carer_support" /\ intake.applicant # None
  THEN <<intake.applicant.dob, intake.applicant.full_name>>
  ELSE <<ToString(t), life_event>>

\* a journey id that always hashes the clock reading with the stable fields
_generate_journey_id_timed(intake, t) ==
  <<ToString(t)>> \o JourneyHashInput(intake, t)

\* "journey_" + sha256(hash_input)[:12]: the digest stands for its input
_generate_journey_id(intake, t) == JourneyHashInput(intake, t)

JourneyStep(id, title) == [id |-> id, title |-> title, status |-> "pending"]

_get_birth_journey_steps(jurisdiction) ==
  IF jurisdiction = "NSW"
  THEN << JourneyStep("birth_reg", "Birth Registration (NSW)"),
          JourneyStep("medicare_enrolment", "Medicare Newborn Enrolment") >>
  ELSE << JourneyStep("birth_reg", "Birth Registration"),
          JourneyStep("medicare_enrolment", "Medicare Newborn Enrolment") >>

_get_unemployment_journey_steps(jurisdiction) ==
  << JourneyStep("unemployment_centrelink", "Centrelink JobSeeker Payment"),
     JourneyStep("job_service_provider", "Job Service Provider Registration") >>

\* the disaster steps in the other order
_get_disaster_journey_steps_swapped(jurisdiction) ==
  << JourneyStep("emergency_housing_assistance", "Emergency Housing Assistance"),
     JourneyStep("emergency_disaster_payment", "Emergency Disaster Payment") >>

_get_disaster_journey_steps(jurisdiction) ==
  << JourneyStep("emergency_disaster_payment", "Emergency Disaster Payment"),
     JourneyStep("emergency_housing_assistance", "Emergency Housing Assistance") >>

_get_carer_journey_steps(jurisdiction) ==
  << JourneyStep("carer_payment", "Carer Payment Application"),
     JourneyStep("carer_allowance", "Carer Allowance Application") >>

\* the Journey that plan_journey assembles (its created_at is never read)
Journey(id, life_event, jurisdiction) ==
  [id |-> id, life_event |-> life_event, jurisdiction |-> jurisdiction,
   steps |-> IF life_event = "baby_just_born"
               THEN _get_birth_journey_steps(jurisdiction)
             ELSE IF life_event = "job_loss"
               THEN _get_unemployment_journey_steps(jurisdiction)
             ELSE IF life_event = "disaster_recovery"
               THEN _get_disaster_journey_steps(jurisdiction)
             ELSE IF life_event = "carer_support"
               THEN _get_carer_journey_steps(jurisdiction)
             ELSE _get_birth_journey_steps(jurisdiction)]

-----------------------------------------------------------------------------
(* orchestrator.py: schema registry and path resolver *)

FormField(id, source) == [id |-> id, source |-> source]

\* the step ids of the built-in schemas (no forms/*.yml file is shipped)
SchemaSteps ==
  {"birth_reg", "medicare_enrolment", "unemployment_centrelink",
   "job_service_provider", "emergency_disaster_payment",
   "emergency_housing_assistance"}

\* the fields of the built-in schema of a step, in declaration order
_get_default_schema(step_id) ==
  IF step_id = "birth_reg" THEN
    [id |-> "birth_registry_nsw",
     fields |-> << FormField("parent1_full_name", <<"parent1", "full_name">>),
                   FormField("parent1_dob", <<"parent1", "dob">>),
                   FormField("baby_name", <<"baby", "name">>),
                   FormField("baby_dob", <<"baby", "dob">>),
                   FormField("place_of_birth", <<"baby", "place_of_birth">>) >>]
  ELSE IF step_id = "medicare_enrolment" THEN
    [id |-> "medicare_newborn",
     fields |-> << FormField("parent1_full_name", <<"parent1", "full_name">>),
                   FormField("baby_name", <<"baby", "name">>),
                   FormField("baby_dob", <<"baby", "dob">>) >>]
  ELSE IF step_id = "unemployment_centrelink" THEN
    [id |-> "unemployment_centrelink",
     fields |-> << FormField("applicant_full_name", <<"applicant", "full_name">>),
                   FormField("applicant_dob", <<"applicant", "dob">>),
                   FormField("last_employer", <<"employment", "last_employer">>),
                   FormField("last_work_date", <<"employment", "last_work_date">>) >>]
  ELSE IF step_id = "job_service_provider" THEN
    [id |-> "job_service_provider",
     fields |-> << FormField("applicant_full_name", <<"applicant", "full_name">>),
                   FormField("applicant_dob", <<"applicant", "dob">>),
                   FormField("skills_assessment", <<"employment", "skills_assessment">>) >>]
  ELSE IF step_id = "emergency_disaster_payment" THEN
    [id |-> "emergency_disaster_payment",
     fields |-> << FormField("applicant_full_name", <<"applicant", "full_name">>),
                   FormField("applicant_dob", <<"applicant", "dob">>),
                   FormField("disaster_type", <<"disaster", "type">>),
                   FormField("disaster_date", <<"disaster", "date">>) >>]
  ELSE IF step_id = "emergency_housing_assistance" THEN
    [id |-> "emergency_housing_assistance",
     fields |-> << FormField("applicant_full_name", <<"applicant", "full_name">>),
                   FormField("applicant_dob", <<"applicant", "dob">>),
                   FormField("disaster_type", <<"disaster", "type">>),
                   FormField("housing_status", <<"housing", "status">>) >>]
  ELSE None   \* raise ValueError("Unknown step_id")

\* a registry that holds the two birth schemas only
_load_form_schema_birth_only(step_id) ==
  IF step_id \in {"birth_reg", "medicare_enrolment"}
  THEN _get_default_schema(step_id)
  ELSE None

\* no schema file exists, every lookup falls back to the built-in schemas
_load_form_schema(step_id) == _get_default_schema(step_id)

\* a resolver that returns an empty string where the path does not resolve
_get_value_from_path_blank(obj, path) ==
  IF ~hasattr(obj, path[1]) THEN ""
  ELSE LET group == obj[path[1]] IN
       IF ~hasattr(group, path[2]) THEN "" ELSE group[path[2]]

\* _get_value_from_path over a two-segment source: the group, then its field;
\* a missing group or attribute gives None
_get_value_from_path(obj, path) ==
  IF ~hasattr(obj, path[1]) THEN NoValue
  ELSE LET group == obj[path[1]] IN
       IF ~hasattr(group, path[2]) THEN NoValue ELSE group[path[2]]

\* the form_data dict of prefill_form: one key per field that resolved
FormData(form_schema, intake) ==
  LET resolved == {k \in 1..Len(form_schema.fields) :
                     _get_value_from_path(intake, form_schema.fields[k].source) # NoValue}
      ids == {form_schema.fields[k].id : k \in resolved}
  IN [id \in ids |->
        LET k == CHOOSE k \in resolved : form_schema.fields[k].id = id
        IN _get_value_from_path(intake, form_schema.fields[k].source)]

-----------------------------------------------------------------------------
(* utils/storage.py *)

\* a file that holds no parsable JSON (a write that failed part-way)
Corrupt == [corrupt |-> TRUE]

\* get_vault_path(journey_id): vault_dir.mkdir(parents=True, exist_ok=True)
\* leaves the directory _artifacts/vault/<journey_id> behind
get_vault_path(directories, journey_id) == directories \cup {journey_id}

\* get_vault_path(journey_id) / "intake" / "intake.json"
IntakePath(journey_id) ==
  [root |-> "_artifacts/vault", journey |-> journey_id,
   sub |-> "intake", name |-> <<"intake.json">>]

\* a prefill path that leaves the journey out
PrefillPathShared(journey_id, step_id) ==
  [root |-> "vault", journey |-> <<>>,
   sub |-> "prefill", name |-> <<step_id, "_prefill.json">>]

\* f"vault/{journey_id}/prefill/{step_id}_prefill.json", relative to the
\* working directory
PrefillPath(journey_id, step_id) ==
  [root |-> "vault", journey |-> journey_id,
   sub |-> "prefill", name |-> <<step_id, "_prefill.json">>]

\* a submission path that leaves the step out
SubmissionPathShared(journey_id, step_id) ==
  [root |-> "vault", journey |-> journey_id,
   sub |-> "submissions", name |-> <<"submission.json">>]

\* f"vault/{journey_id}/submissions/{step_id}_submission.json"
SubmissionPath(journey_id, step_id) ==
  [root |-> "vault", journey |-> journey_id,
   sub |-> "submissions", name |-> <<step_id, "_submission.json">>]

\* the files after open(path, 'w') and json.dump of the envelope
save_artifact(files, path, data, artifact_type, t) ==
  [p \in DOMAIN files \cup {path} |->
     IF p = path
     THEN [type |-> artifact_type, created_at |-> t, data |-> data]
     ELSE files[p]]

\* the files after open(path, 'w') truncated the file and json.dump raised
TruncatedWrite(files, path) ==
  [p \in DOMAIN files \cup {path} |-> IF p = path THEN Corrupt ELSE files[p]]

\* an expiry test that also removes a journey exactly ttl_days old
IsExpiredInclusive(created_at, ttl_days, t) == created_at <= t - timedelta(ttl_days)

\* created_at < cutoff_date
IsExpired(created_at, ttl_days, t) == created_at < t - timedelta(ttl_days)

\* a sweep that gives up when it meets an intake file it cannot parse
ExpiredJourneysAborting(files, ttl_days, t) ==
  IF \E q \in DOMAIN files : q = IntakePath(q.journey) /\ files[q] = Corrupt
  THEN {}
  ELSE {p.journey : p \in
          {q \in DOMAIN files :
             /\ q = IntakePath(q.journey)
             /\ IsExpired(files[q].created_at, ttl_days, t)}}

\* the journey directories that the sweep removes
ExpiredJourneys(files, ttl_days, t) ==
  {p.journey : p \in
     {q \in DOMAIN files :
        /\ q = IntakePath(q.journey)
        /\ files[q] # Corrupt
        /\ IsExpired(files[q].created_at, ttl_days, t)}}

\* shutil.rmtree(journey_dir) for every expired journey_dir of _artifacts/vault
cleanup_expired_artifacts(files, ttl_days, t) ==
  LET removed == ExpiredJourneys(files, ttl_days, t)
      kept == {p \in DOMAIN files :
                 ~(p.root = "_artifacts/vault" /\ p.journey \in removed)}
  IN [p \in kept |-> files[p]]

\* the paths list_artifacts(journey_id) returns: the *.json files below
\* _artifacts/vault/<journey_id>
list_artifacts(files, journey_id) ==
  {p \in DOMAIN files : p.root = "_artifacts/vault" /\ p.journey = journey_id}

-----------------------------------------------------------------------------
(* utils/audit.py *)

\* hashlib.sha256(x).hexdigest(), also when truncated
sha256(x) == [sha256 |-> x]

\* the line log_event writes: the event and the digest of its other fields
\* (why is a fixed text per action)
AuditLine(actor, action, consent_id, metadata, t) ==
  LET event == [timestamp |-> t, actor |-> actor, action |-> action,
                consent_id |-> consent_id, metadata |-> metadata]
  IN [timestamp |-> t, actor |-> actor, action |-> action,
      consent_id |-> consent_id, metadata |-> metadata,
      hash |-> sha256(event)]

\* a log_event that opens the log with mode 'w'
log_event_truncating(log, actor, action, consent_id, metadata, t) ==
  <<AuditLine(actor, action, consent_id, metadata, t)>>

\* open(audit_log_path, 'a'); f.write(line): the log after the call
log_event(log, actor, action, consent_id, metadata, t) ==
  Append(log, AuditLine(actor, action, consent_id, metadata, t))

\* a line of the log that json.loads rejects (json.JSONDecodeError)
CorruptLine == [corrupt |-> TRUE]

\* None, for an optional journey id (journey ids are sequences) and for an
\* optional datetime (instants are integers)
NoJourney == <<>>
NoDate == 0 - 1

\* event.get("metadata", {}).get("journey_id") == journey_id
MetadataJourneyIs(event, journey_id) ==
  /\ "journey_id" \in DOMAIN event.metadata
  /\ event.metadata.journey_id = journey_id

\* the filters of get_audit_trail pass the event; a filter that is not
\* supplied (None) passes every event
PassesFilters(event, journey_id, action, start_date, end_date) ==
  /\ journey_id # NoJourney => MetadataJourneyIs(event, journey_id)
  /\ action # NoValue => event.action = action
  /\ start_date # NoDate => ~(event.timestamp < start_date)
  /\ end_date # NoDate => ~(event.timestamp > end_date)

\* events.sort(key=timestamp, reverse=True): a stable sort, events with
\* equal timestamps keep the order they have in the log
RECURSIVE SortNewestFirst(_)
SortNewestFirst(events) ==
  IF events = <<>> THEN <<>>
  ELSE LET n == Len(events)
           e == events[n]
           sorted == SortNewestFirst(SubSeq(events, 1, n - 1))
           ahead == {k \in 1..Len(sorted) : sorted[k].timestamp >= e.timestamp}
           cut == IF ahead = {} THEN 0
                  ELSE CHOOSE k \in ahead : \A h \in ahead : h <= k
       IN SubSeq(sorted, 1, cut) \o <<e>> \o SubSeq(sorted, cut + 1, Len(sorted))

\* a scan that stops at the first line it cannot parse
RECURSIVE ScanUntilCorrupt(_, _, _, _, _)
ScanUntilCorrupt(log, journey_id, action, start_date, end_date) ==
  IF log = <<>> \/ Head(log) = CorruptLine THEN <<>>
  ELSE (IF PassesFilters(Head(log), journey_id, action, start_date, end_date)
        THEN <<Head(log)>> ELSE <<>>)
       \o ScanUntilCorrupt(Tail(log), journey_id, action, start_date, end_date)

\* the scan of get_audit_trail: one line after the other, a line that does
\* not parse is skipped (except json.JSONDecodeError: continue), an event
\* that passes every filter is appended
RECURSIVE Scan(_, _, _, _, _)
Scan(log, journey_id, action, start_date, end_date) ==
  IF log = <<>> THEN <<>>
  ELSE (IF /\ Head(log) # CorruptLine
           /\ PassesFilters(Head(log), journey_id, action, start_date, end_date)
        THEN <<Head(log)>> ELSE <<>>)
       \o Scan(Tail(log), journey_id, action, start_date, end_date)

\* a trail that gives up at the first corrupt line
get_audit_trail_stopping(log, journey_id, action, start_date, end_date) ==
  SortNewestFirst(ScanUntilCorrupt(log, journey_id, action, start_date, end_date))

get_audit_trail(log, journey_id, action, start_date, end_date) ==
  SortNewestFirst(Scan(log, journey_id, action, start_date, end_date))

\* sha256(f"{journey_id}{utcnow}")[:16]
ConsentId(journey_id, t) == sha256([journey_id |-> journey_id, timestamp |-> t])

ConsentRecord(consent_id, journey_id, consent_scope, user_identifier, signature, t) ==
  [consent_id |-> consent_id, journey_id |-> journey_id,
   consent_scope |-> consent_scope, user_identifier |-> user_identifier,
   signature |-> signature, granted_at |-> t, ttl_days |-> CONSENT_TTL_DAYS]

\* metadata of the consent_granted event
ConsentMetadata(journey_id, consent_scope, user_identifier, signature) ==
  [journey_id |-> journey_id, consent_scope |-> consent_scope,
   user_identifier |-> user_identifier,
   has_signature |-> (signature # NoValue)]

\* required_scope in consent_scope
InScope(required_scope, consent_scope) ==
  \E k \in 1..Len(consent_scope) : consent_scope[k] = required_scope

\* an expiry test that still accepts the consent at the instant it expires
ConsentLiveInclusive(consent, t) ==
  t <= consent.granted_at + timedelta(consent.ttl_days)

\* datetime.utcnow() < granted_at + timedelta(days=ttl_days)
ConsentLive(consent, t) == t < consent.granted_at + timedelta(consent.ttl_days)

verify_consent(consents, consent_id, required_scope, t) ==
  \E k \in 1..Len(consents) :
     /\ consents[k].consent_id = consent_id
     /\ InScope(required_scope, consents[k].consent_scope)
     /\ ConsentLive(consents[k], t)

\* a ledger write that starts from an empty document
WriteLedgerFresh(snapshot, consent_data) == <<consent_data>>

\* ledger["consents"].append(consent_data); json.dump(ledger): the ledger
\* document written from the snapshot that was read
WriteLedger(snapshot, consent_data) == Append(snapshot, consent_data)

-----------------------------------------------------------------------------
(* orchestrator.py: plan_journey, prefill_form, submit_form *)

\* outcomes of the I/O of a call that saves an artifact and then appends an
\* audit event (plan_journey, submit_form): no fault, open() of the artifact
\* file fails, json.dump fails after open() truncated the file, the audit
\* append fails
Faults == {"none", "open", "dump", "log"}

\* the files after _save_intake_to_vault
_save_intake_to_vault(files, journey_id, intake, t) ==
  save_artifact(files, IntakePath(journey_id),
                [intake |-> intake, created_at |-> t], "intake", t)

\* plan_journey under a given fault: whether it raised, the Journey it
\* returned, and the files and the audit log it leaves
plan_journey(files, log, intake, jurisdiction, t, fault) ==
  LET journey_id == _generate_journey_id(intake, t)
      life_event == _determine_life_event(intake)
      journey == Journey(journey_id, life_event, jurisdiction)
      saved == _save_intake_to_vault(files, journey_id, intake, t)
  IN IF fault = "open"
     THEN [raised |-> TRUE, journey |-> None, fs |-> files, audit_log |-> log]
     ELSE IF fault = "dump"
     THEN [raised |-> TRUE, journey |-> None,
           fs |-> TruncatedWrite(files, IntakePath(journey_id)),
           audit_log |-> log]
     ELSE IF fault = "log"
     THEN [raised |-> TRUE, journey |-> None, fs |-> saved, audit_log |-> log]
     ELSE [raised |-> FALSE, journey |-> journey, fs |-> saved,
           audit_log |-> log_event(log, "system", "journey_created", None,
                                   [journey_id |-> journey_id,
                                    jurisdiction |-> jurisdiction,
                                    life_event |-> life_event], t)]

\* prefill_form: whether it raised (unknown step), the data it returns and
\* the files it leaves
prefill_form(files, journey_id, step_id, intake, t) ==
  LET form_schema == _load_form_schema(step_id) IN
  IF form_schema = None
  THEN [raised |-> TRUE, data |-> None, fs |-> files]
  ELSE LET form_data == FormData(form_schema, intake) IN
       [raised |-> FALSE, form_id |-> form_schema.id, data |-> form_data,
        review |-> [form_id |-> form_schema.id, step_id |-> step_id,
                    fields |-> form_data],
        fs |-> save_artifact(files, PrefillPath(journey_id, step_id),
                             [journey_id |-> journey_id, step_id |-> step_id,
                              form_data |-> form_data, created_at |-> t],
                             "prefill", t)]

\* step_id.upper()[:2] + "-" + sha256(step_id + journey_id + timestamp)[:8]
_generate_reference(step_id, journey_id, t) ==
  [prefix |-> step_id,
   digest |-> sha256([step_id |-> step_id, journey_id |-> journey_id,
                      timestamp |-> t])]

\* a submit_form that swallows the failure of the audit append
submit_form_swallowing(files, log, journey_id, step_id, form_data, t, fault) ==
  LET reference == _generate_reference(step_id, journey_id, t)
      saved == save_artifact(files, SubmissionPath(journey_id, step_id),
                             [journey_id |-> journey_id, step_id |-> step_id,
                              form_data |-> form_data, reference |-> reference,
                              submitted_at |-> t, status |-> "submitted"],
                             "submission", t)
  IN IF fault = "open"
     THEN [raised |-> TRUE, reference |-> None, fs |-> files, audit_log |-> log]
     ELSE IF fault = "dump"
     THEN [raised |-> TRUE, reference |-> None,
           fs |-> TruncatedWrite(files, SubmissionPath(journey_id, step_id)),
           audit_log |-> log]
     ELSE IF fault = "log"
     THEN [raised |-> FALSE, reference |-> reference, fs |-> saved,
           audit_log |-> log]
     ELSE [raised |-> FALSE, reference |-> reference, fs |-> saved,
           audit_log |-> log_event(log, "user", "form_submitted", None,
                                   [journey_id |-> journey_id,
                                    step_id |-> step_id,
                                    reference |-> reference], t)]

\* submit_form under a given fault: whether it raised, the reference it
\* returns, the files and the audit log it leaves
submit_form(files, log, journey_id, step_id, form_data, t, fault) ==
  LET reference == _generate_reference(step_id, journey_id, t)
      saved == save_artifact(files, SubmissionPath(journey_id, step_id),
                             [journey_id |-> journey_id, step_id |-> step_id,
                              form_data |-> form_data, reference |-> reference,
                              submitted_at |-> t, status |-> "submitted"],
                             "submission", t)
  IN IF fault = "open"
     THEN [raised |-> TRUE, reference |-> None, fs |-> files, audit_log |-> log]
     ELSE IF fault = "dump"
     THEN [raised |-> TRUE, reference |-> None,
           fs |-> TruncatedWrite(files, SubmissionPath(journey_id, step_id)),
           audit_log |-> log]
     ELSE IF fault = "log"
     THEN [raised |-> TRUE, reference |-> None, fs |-> saved, audit_log |-> log]
     ELSE [raised |-> FALSE, reference |-> reference, fs |-> saved,
           audit_log |-> log_event(log, "user", "form_submitted", None,
                                   [journey_id |-> journey_id,
                                    step_id |-> step_id,
                                    reference |-> reference], t)]

\* log_consent run without interruption: the id it returns, the audit log
\* and the ledger it leaves
log_consent(log, consents, journey_id, consent_scope, user_identifier, signature, t) ==
  LET consent_id == ConsentId(journey_id, t) IN
  [consent_id |-> consent_id,
   audit_log |-> log_event(log, "user", "consent_granted", consent_id,
                           ConsentMetadata(journey_id, consent_scope,
                                           user_identifier, signature), t),
   ledger |-> WriteLedger(consents,
                          ConsentRecord(consent_id, journey_id, consent_scope,
                                        user_identifier, signature, t))]

-----------------------------------------------------------------------------
(* The requests the callers send *)

\* the journey ids requests name
JourneyIds == {_generate_journey_id(i, 0) : i \in Intakes}

\* the journey id the family's requests name
FamilyJourneyIds == {_generate_journey_id(i, 0) : i \in FamilyIntakes}

\* the step names requests name: a step of a planned journey, and a step no
\* journey and no schema knows
RequestSteps == {"birth_reg", "no_such_step"}

\* the consent scope lists requests carry
ScopeLists == {<<>>, <<"birth_registration", "medicare_enrolment">>}

\* the form_data bodies of submit requests
FormBodies == {[confirmed |-> "yes"]}

\* the concurrent callers of log_consent
Procs == {1, 2}

NoLocals == [none |-> TRUE]

-----------------------------------------------------------------------------
(* Initial state: empty working directory, empty stores *)

Init ==
  /\ now = 0
  /\ fs = <<>>
  /\ audit_log = <<>>
  /\ ledger = <<>>
  /\ journey_store = <<>>
  /\ intake_store = <<>>
  /\ resp = [op |-> "none"]
  /\ returned = {}
  /\ pc = [p \in Procs |-> "idle"]
  /\ loc = [p \in Procs |-> NoLocals]
  /\ requests = <<>>
  /\ dirs = {}
  /\ current_journey = None

\* d[key] = value
DictSet(d, key, value) ==
  [k \in DOMAIN d \cup {key} |-> IF k = key THEN value ELSE d[k]]

\* time passes
Tick ==
  /\ \E t \in Instants : t > now /\ now' = t
  /\ UNCHANGED <<fs, audit_log, ledger, journey_store, intake_store, resp,
                 returned, pc, loc, requests,
                 dirs, current_journey>>

-----------------------------------------------------------------------------
(* main.py: the HTTP handlers, one call at a time *)

\* POST /intake
create_intake(intake, fault) ==
  LET plan == plan_journey(fs, audit_log, intake, "NSW", now, fault) IN
  /\ Len(audit_log) < MaxLog
  /\ fs' = plan.fs
  /\ audit_log' = plan.audit_log
  /\ IF plan.raised
     THEN /\ UNCHANGED <<journey_store, intake_store>>
          /\ resp' = [op |-> "intake", status |-> 500]
     ELSE /\ journey_store' = DictSet(journey_store, plan.journey.id, plan.journey)
          /\ intake_store' = DictSet(intake_store, plan.journey.id, intake)
          /\ resp' = IF intake.parent1 = None   \* intake.parent1.full_name raises
                     THEN [op |-> "intake", status |-> 500]
                     ELSE [op |-> "intake", status |-> 200,
                           journey_id |-> plan.journey.id]
  /\ dirs' = get_vault_path(dirs, _generate_journey_id(intake, now))
  /\ UNCHANGED <<now, ledger, returned, pc, loc, requests, current_journey>>

\* a prefill handler that marks the step in_progress
post_prefill_marking(journey_id, step) ==
  /\ IF journey_id \notin DOMAIN journey_store \/ journey_id \notin DOMAIN intake_store
     THEN /\ resp' = [op |-> "prefill", status |-> 404]
          /\ UNCHANGED <<fs, journey_store>>
     ELSE LET r == prefill_form(fs, journey_id, step, intake_store[journey_id], now)
              journey == journey_store[journey_id]
          IN /\ fs' = r.fs
             /\ journey_store' =
                  [journey_store EXCEPT ![journey_id].steps =
                     [k \in 1..Len(journey.steps) |->
                        IF journey.steps[k].id = step
                        THEN [journey.steps[k] EXCEPT !.status = "in_progress"]
                        ELSE journey.steps[k]]]
             /\ resp' = IF r.raised
                        THEN [op |-> "prefill", status |-> 500]
                        ELSE [op |-> "prefill", status |-> 200,
                              journey_id |-> journey_id, step |-> step]
  /\ UNCHANGED <<now, audit_log, ledger, intake_store, returned, pc, loc,
                 requests,
                 dirs, current_journey>>

\* POST /prefill/{journey_id}/{step}
post_prefill(journey_id, step) ==
  /\ IF journey_id \notin DOMAIN journey_store \/ journey_id \notin DOMAIN intake_store
     THEN /\ resp' = [op |-> "prefill", status |-> 404]
          /\ UNCHANGED fs
     ELSE LET r == prefill_form(fs, journey_id, step, intake_store[journey_id], now) IN
          /\ fs' = r.fs
          /\ resp' = IF r.raised
                     THEN [op |-> "prefill", status |-> 500]
                     ELSE [op |-> "prefill", status |-> 200,
                           journey_id |-> journey_id, step |-> step]
  /\ UNCHANGED <<now, audit_log, ledger, journey_store, intake_store,
                 returned, pc, loc, requests,
                 dirs, current_journey>>

\* POST /consent/{journey_id}
grant_consent(journey_id, consent_scope, signature) ==
  /\ IF journey_id \notin DOMAIN journey_store
     THEN /\ resp' = [op |-> "consent", status |-> 404]
          /\ UNCHANGED <<audit_log, ledger, returned>>
     ELSE IF consent_scope = <<>>       \* consent.scope[0] raises IndexError
     THEN /\ resp' = [op |-> "consent", status |-> 500]
          /\ UNCHANGED <<audit_log, ledger, returned>>
     ELSE LET r == log_consent(audit_log, ledger, journey_id, consent_scope,
                               sha256(consent_scope[1]), signature, now) IN
          /\ Len(audit_log) < MaxLog
          /\ Len(ledger) < MaxConsents
          /\ audit_log' = r.audit_log
          /\ ledger' = r.ledger
          /\ returned' = returned \cup
                {[consent_id |-> r.consent_id, consent_scope |-> consent_scope,
                  granted_at |-> now]}
          /\ resp' = [op |-> "consent", status |-> 200,
                      consent_id |-> r.consent_id]
  /\ UNCHANGED <<now, fs, journey_store, intake_store, pc, loc, requests,
                 dirs, current_journey>>

\* journey_step.status = "completed" for the first step with that id
CompleteStep(journey, step) ==
  LET hits == {k \in 1..Len(journey.steps) : journey.steps[k].id = step} IN
  IF hits = {} THEN journey
  ELSE LET first == CHOOSE k \in hits : \A h \in hits : k <= h IN
       [journey EXCEPT !.steps[first].status = "completed"]

\* a submit handler that does not look the journey up
post_submit_unchecked(journey_id, step, form_data, fault) ==
  LET r == submit_form(fs, audit_log, journey_id, step, form_data, now, fault) IN
  /\ Len(audit_log) < MaxLog
  /\ fs' = r.fs
  /\ audit_log' = r.audit_log
  /\ resp' = IF r.raised THEN [op |-> "submit", status |-> 500]
             ELSE [op |-> "submit", status |-> 200, journey_id |-> journey_id,
                   step |-> step, reference |-> r.reference]
  /\ UNCHANGED <<now, ledger, journey_store, intake_store, returned, pc, loc,
                 requests, dirs, current_journey>>

\* POST /submit/{journey_id}/{step}
post_submit(journey_id, step, form_data, fault) ==
  /\ IF journey_id \notin DOMAIN journey_store
     THEN /\ resp' = [op |-> "submit", status |-> 404]
          /\ UNCHANGED <<fs, audit_log, journey_store>>
     ELSE LET r == submit_form(fs, audit_log, journey_id, step, form_data, now,
                               fault) IN
          /\ Len(audit_log) < MaxLog
          /\ fs' = r.fs
          /\ audit_log' = r.audit_log
          /\ IF r.raised
             THEN /\ UNCHANGED journey_store
                  /\ resp' = [op |-> "submit", status |-> 500]
             ELSE /\ journey_store' =
                       [journey_store EXCEPT
                          ![journey_id] =
                             CompleteStep(journey_store[journey_id], step)]
                  /\ resp' = [op |-> "submit", status |-> 200,
                              journey_id |-> journey_id, step |-> step,
                              reference |-> r.reference]
  /\ UNCHANGED <<now, ledger, intake_store, returned, pc, loc, requests,
                 dirs, current_journey>>

\* a cleanup that also forgets the swept journeys in the in-memory stores
cleanup_expired_data_forgetting ==
  LET removed == ExpiredJourneys(fs, CLEANUP_TTL_DAYS, now) IN
  /\ fs' = cleanup_expired_artifacts(fs, CLEANUP_TTL_DAYS, now)
  /\ resp' = [op |-> "cleanup", status |-> 200, removed |-> removed]
  /\ dirs' = dirs \ removed
  /\ journey_store' = [j \in DOMAIN journey_store \ removed |-> journey_store[j]]
  /\ intake_store' = [j \in DOMAIN intake_store \ removed |-> intake_store[j]]
  /\ UNCHANGED <<now, audit_log, ledger, returned, pc, loc, requests,
                 current_journey>>

\* POST /cleanup
cleanup_expired_data ==
  /\ fs' = cleanup_expired_artifacts(fs, CLEANUP_TTL_DAYS, now)
  /\ resp' = [op |-> "cleanup", status |-> 200,
              removed |-> ExpiredJourneys(fs, CLEANUP_TTL_DAYS, now)]
  /\ dirs' = dirs \ ExpiredJourneys(fs, CLEANUP_TTL_DAYS, now)
  /\ UNCHANGED <<now, audit_log, ledger, journey_store, intake_store,
                 returned, pc, loc, requests, current_journey>>

\* a direct call of log_event, as test_utilities makes it
call_log_event ==
  /\ Len(audit_log) < MaxLog
  /\ audit_log' = log_event(audit_log, "test", "test_action", None,
                            [test |-> TRUE], now)
  /\ resp' = [op |-> "log_event", status |-> 200,
              result |-> audit_log'[Len(audit_log')].hash]
  /\ UNCHANGED <<now, fs, ledger, journey_store, intake_store,
                 returned, pc, loc, requests,
                 dirs, current_journey>>

\* one family drives every endpoint
Next ==
  \/ Tick
  \/ \E i \in FamilyIntakes, f \in Faults : create_intake(i, f)
  \/ \E j \in FamilyJourneyIds, s \in RequestSteps : post_prefill(j, s)
  \/ \E j \in FamilyJourneyIds, sc \in ScopeLists : grant_consent(j, sc, NoValue)
  \/ \E j \in FamilyJourneyIds, s \in RequestSteps, b \in FormBodies :
        post_submit(j, s, b, "none")
  \/ cleanup_expired_data
  \/ call_log_event

Spec == Init /\ [][Next]_vars

\* two users fill the vault, which is swept as time passes
NextVault ==
  \/ Tick
  \/ \E i \in Intakes, f \in Faults : create_intake(i, f)
  \/ \E j \in JourneyIds, s \in RequestSteps : post_prefill(j, s)
  \/ cleanup_expired_data

SpecVault == Init /\ [][NextVault]_vars

\* one family plans and submits while the artifact store and the audit log
\* may fail under a submission
NextSubmit ==
  \/ Tick
  \/ \E i \in FamilyIntakes, f \in Faults : create_intake(i, f)
  \/ \E j \in FamilyJourneyIds, s \in RequestSteps, b \in FormBodies,
        f \in Faults : post_submit(j, s, b, f)
  \/ cleanup_expired_data

SpecSubmit == Init /\ [][NextSubmit]_vars

\* the step both users prefill and submit
SharedSteps == {"birth_reg"}

\* the outcomes of the intake write while two users work side by side
IntakeFaults == {"none", "dump"}

\* two users plan, prefill and submit, their calls interleaved in any order
NextJourneys ==
  \/ Tick
  \/ \E i \in Intakes, f \in IntakeFaults : create_intake(i, f)
  \/ \E j \in JourneyIds, s \in SharedSteps : post_prefill(j, s)
  \/ \E j \in JourneyIds, s \in SharedSteps, b \in FormBodies :
        post_submit(j, s, b, "none")

SpecJourneys == Init /\ [][NextJourneys]_vars

-----------------------------------------------------------------------------
(* utils/audit.py: log_consent called by concurrent callers.  A call is    *)
(* three steps: derive the id and append the audit event; build the        *)
(* record and read the whole ledger; write the whole ledger.               *)

\* the scope lists the concurrent callers grant
ConsentScopes == {<<"birth_registration">>}

\* consent_id = sha256(...); log_event(...)
lc_audit(p, journey_id, consent_scope) ==
  LET consent_id == ConsentId(journey_id, now)
      user_identifier == sha256(consent_scope[1])
  IN /\ pc[p] \in {"idle", "done"}
     /\ Len(audit_log) < MaxLog
     /\ audit_log' = log_event(audit_log, "user", "consent_granted", consent_id,
                               ConsentMetadata(journey_id, consent_scope,
                                               user_identifier, NoValue), now)
     /\ loc' = [loc EXCEPT ![p] =
                  [consent_id |-> consent_id, journey_id |-> journey_id,
                   consent_scope |-> consent_scope,
                   user_identifier |-> user_identifier]]
     /\ pc' = [pc EXCEPT ![p] = "audited"]
     /\ UNCHANGED <<now, fs, ledger, journey_store, intake_store, resp,
                    returned, requests,
                    dirs, current_journey>>

\* consent_data = {...}; ledger = json.load(f)
lc_read(p) ==
  /\ pc[p] = "audited"
  /\ loc' = [loc EXCEPT ![p] =
               [consent_data |->
                  ConsentRecord(loc[p].consent_id, loc[p].journey_id,
                                loc[p].consent_scope, loc[p].user_identifier,
                                NoValue, now),
                snapshot |-> ledger]]
  /\ pc' = [pc EXCEPT ![p] = "read"]
  /\ UNCHANGED <<now, fs, audit_log, ledger, journey_store, intake_store,
                 resp, returned, requests,
                 dirs, current_journey>>

\* a write step that appends to the ledger as it is at the time of the write
lc_write_append(p) ==
  /\ pc[p] = "read"
  /\ ledger' = Append(ledger, loc[p].consent_data)
  /\ returned' = returned \cup
        {[consent_id |-> loc[p].consent_data.consent_id,
          consent_scope |-> loc[p].consent_data.consent_scope,
          granted_at |-> loc[p].consent_data.granted_at]}
  /\ pc' = [pc EXCEPT ![p] = "done"]
  /\ UNCHANGED <<now, fs, audit_log, journey_store, intake_store, resp, loc,
                 requests,
                 dirs, current_journey>>

\* ledger["consents"].append(consent_data); json.dump(ledger, f); return consent_id
lc_write(p) ==
  /\ pc[p] = "read"
  /\ ledger' = WriteLedger(loc[p].snapshot, loc[p].consent_data)
  /\ returned' = returned \cup
        {[consent_id |-> loc[p].consent_data.consent_id,
          consent_scope |-> loc[p].consent_data.consent_scope,
          granted_at |-> loc[p].consent_data.granted_at]}
  /\ pc' = [pc EXCEPT ![p] = "done"]
  /\ UNCHANGED <<now, fs, audit_log, journey_store, intake_store, resp, loc,
                 requests,
                 dirs, current_journey>>

NextConc ==
  \/ Tick
  \/ \E p \in Procs, j \in JourneyIds, sc \in ConsentScopes : lc_audit(p, j, sc)
  \/ \E p \in Procs : lc_read(p)
  \/ \E p \in Procs : lc_write(p)

SpecConc == Init /\ [][NextConc]_vars

-----------------------------------------------------------------------------
(* utils/audit.py: verify_consent called on the ledger that the consent     *)
(* endpoint fills                                                           *)

\* the consent ids verify_consent is asked about: those a grant can have
\* returned, and one that no grant returns
QueryConsentIds ==
  {ConsentId(j, t) : j \in FamilyJourneyIds, t \in Instants}
    \cup {ConsentId(<<"no_such_journey">>, 0)}

\* the scopes verify_consent is asked about
QueryScopes == {"birth_registration", "medicare_enrolment", "jobseeker_payment"}

\* the scope lists the consent requests carry
GrantScopeLists ==
  {<<"birth_registration">>, <<"birth_registration", "medicare_enrolment">>}

\* verify_consent(consent_id, required_scope)
call_verify_consent(consent_id, required_scope) ==
  /\ resp' = [op |-> "verify_consent", consent_id |-> consent_id,
              required_scope |-> required_scope, at |-> now,
              result |-> verify_consent(ledger, consent_id, required_scope, now)]
  /\ UNCHANGED <<now, fs, audit_log, ledger, journey_store, intake_store,
                 returned, pc, loc, requests,
                 dirs, current_journey>>

NextConsent ==
  \/ Tick
  \/ \E i \in FamilyIntakes : create_intake(i, "none")
  \/ \E j \in FamilyJourneyIds, sc \in GrantScopeLists :
        grant_consent(j, sc, NoValue)
  \/ \E c \in QueryConsentIds, s \in QueryScopes : call_verify_consent(c, s)

SpecConsent == Init /\ [][NextConsent]_vars

-----------------------------------------------------------------------------
(* utils/audit.py: get_audit_trail called on a log that holds events of two *)
(* journeys and lines that do not parse                                     *)

\* the journey ids of the events in the log
TrailJourney1 == _generate_journey_id(BirthIntake, 0)
TrailJourney2 == _generate_journey_id(JobIntake, 0)

\* the lines a log is made of: events as log_event writes them, for two
\* journeys, three actions and three instants, and a line that does not parse
TrailLines ==
  { AuditLine("system", "journey_created", None,
              [journey_id |-> TrailJourney1, jurisdiction |-> "NSW",
               life_event |-> "baby_just_born"], 0),
    AuditLine("user", "form_submitted", None,
              [journey_id |-> TrailJourney1, step_id |-> "birth_reg",
               reference |-> _generate_reference("birth_reg", TrailJourney1,
                                                 timedelta(CLEANUP_TTL_DAYS))],
              timedelta(CLEANUP_TTL_DAYS)),
    AuditLine("system", "journey_created", None,
              [journey_id |-> TrailJourney2, jurisdiction |-> "NSW",
               life_event |-> "job_loss"], timedelta(CLEANUP_TTL_DAYS)),
    AuditLine("test", "test_action", None, [test |-> TRUE],
              timedelta(CLEANUP_TTL_DAYS) + 1),
    CorruptLine }

\* the logs of at most MaxLog lines; concurrent log_event calls take their
\* timestamps before they write, so lines need not be in timestamp order
TrailLogs ==
  UNION {[1..n -> TrailLines] : n \in 0..MaxLog}

\* the filters callers pass; None stands for a filter that is not supplied
TrailJourneyFilters == {NoJourney, TrailJourney1, TrailJourney2}
TrailActionFilters == {NoValue, "journey_created", "form_submitted"}
TrailDateFilters == {NoDate} \cup Instants

TrailRequest(journey_id, action, start_date, end_date) ==
  [op |-> "get_audit_trail", journey_id |-> journey_id, action |-> action,
   start_date |-> start_date, end_date |-> end_date]

\* the scripts: one reading of the trail
TrailScripts ==
  {<<TrailRequest(j, a, s, e)>> :
     j \in TrailJourneyFilters, a \in TrailActionFilters,
     s \in TrailDateFilters, e \in TrailDateFilters}

InitTrail ==
  /\ now = 0
  /\ fs = <<>>
  /\ audit_log \in TrailLogs
  /\ ledger = <<>>
  /\ journey_store = <<>>
  /\ intake_store = <<>>
  /\ resp = [op |-> "none"]
  /\ returned = {}
  /\ pc = [p \in Procs |-> "idle"]
  /\ loc = [p \in Procs |-> NoLocals]
  /\ requests \in TrailScripts
  /\ dirs = {}
  /\ current_journey = None

\* events = get_audit_trail(journey_id, action, start_date, end_date)
call_get_audit_trail ==
  /\ requests # <<>>
  /\ Head(requests).op = "get_audit_trail"
  /\ resp' = [op |-> "get_audit_trail", request |-> Head(requests),
              result |-> get_audit_trail(audit_log, Head(requests).journey_id,
                                         Head(requests).action,
                                         Head(requests).start_date,
                                         Head(requests).end_date)]
  /\ requests' = Tail(requests)
  /\ UNCHANGED <<now, fs, audit_log, ledger, journey_store, intake_store,
                 returned, pc, loc, dirs, current_journey>>

NextTrail == call_get_audit_trail

SpecTrail == InitTrail /\ [][NextTrail]_vars

-----------------------------------------------------------------------------
(* agent.py: AgenticAssistant, one global instance.  The retrieval helpers  *)
(* (services, how-to, inclusivity) only shape the text of the answers and   *)
(* are left out.                                                            *)

\* the intents _extract_intent finds in the messages users send
Intents == {"birth_registration", "general_assistance"}

\* the days_ago entities _extract_entities finds ("today", "yesterday")
DaysAgo == {0, 1}

\* (datetime.now() - timedelta(days=days_ago)).strftime('%Y-%m-%d')
_calculate_baby_dob(days_ago, t) ==
  ToString((t - timedelta(days_ago)) \div TicksPerDay)

\* Intake(**intake_data) of _create_birth_registration_journey,
\* _create_medicare_journey and _create_general_journey, which build the
\* same intake_data
AgentIntake(days_ago, t) ==
  Intake(Person("To be provided", "1990-01-01"), None,
         Baby(NoValue, _calculate_baby_dob(days_ago, t), "To be provided"),
         None, None, None, None)

\* the journey ids continue_conversation is called with: those a
\* conversation can have started, and one that none has
AgentJourneyIds ==
  {_generate_journey_id(AgentIntake(d, t), t) : d \in DaysAgo, t \in Instants}
    \cup {<<"no_such_journey">>}

\* start_conversation(user_message): the journey is planned and stored as
\* the current journey, then conversation_started is logged
start_conversation(intent, days_ago) ==
  LET plan == plan_journey(fs, audit_log, AgentIntake(days_ago, now), "NSW",
                           now, "none")
  IN /\ Len(audit_log) < MaxLog
     /\ fs' = plan.fs
     /\ dirs' = get_vault_path(dirs, plan.journey.id)
     /\ current_journey' = plan.journey
     /\ audit_log' = log_event(plan.audit_log, "agent", "conversation_started",
                               None, [intent |-> intent,
                                      journey_id |-> plan.journey.id], now)
     /\ resp' = [op |-> "start_conversation", journey_id |-> plan.journey.id,
                 next_action |-> "ready_to_continue"]
     /\ UNCHANGED <<now, ledger, journey_store, intake_store, returned, pc,
                    loc, requests>>

\* the try block of _execute_next_step for one step: the two birth steps
\* read self.current_journey.journey_id, an attribute models.Journey does
\* not have, which raises; any other step is answered unknown_step
ExecuteStep(journey, step) ==
  IF step.id \in {"birth_reg", "medicare_enrolment"}
  THEN IF hasattr(journey, "journey_id")
       THEN [raised |-> FALSE, status |-> "step_completed"]
       ELSE [raised |-> TRUE, status |-> "error"]
  ELSE [raised |-> FALSE, status |-> "unknown_step"]

\* the positions of the steps of a journey that are not completed
Incomplete(journey) ==
  {k \in 1..Len(journey.steps) : journey.steps[k].status # "completed"}

\* for step in steps: if step.status != 'completed': next_step = step; break
NextStepOf(journey) ==
  CHOOSE k \in Incomplete(journey) : \A h \in Incomplete(journey) : k <= h

\* continue_conversation(journey_id)
continue_conversation(journey_id) ==
  /\ IF current_journey = None \/ current_journey.id # journey_id
     THEN /\ resp' = [op |-> "continue_conversation", journey_id |-> journey_id,
                      status |-> "not_active"]
          /\ UNCHANGED <<audit_log, current_journey>>
     ELSE IF Incomplete(current_journey) = {}
     THEN /\ Len(audit_log) < MaxLog + 2
          /\ resp' = [op |-> "continue_conversation", journey_id |-> journey_id,
                      status |-> "journey_complete"]
          /\ audit_log' = log_event(audit_log, "agent", "conversation_continued",
                                    None, [next_step |-> "journey_complete",
                                           journey_id |-> journey_id], now)
          /\ UNCHANGED current_journey
     ELSE LET k == NextStepOf(current_journey)
              r == ExecuteStep(current_journey, current_journey.steps[k])
          IN /\ Len(audit_log) < MaxLog + 2
             /\ resp' = [op |-> "continue_conversation", journey_id |-> journey_id,
                         status |-> r.status,
                         step_id |-> current_journey.steps[k].id]
             /\ IF r.raised
                THEN /\ UNCHANGED current_journey
                     /\ audit_log' =
                          log_event(
                            log_event(audit_log, "agent", "step_execution_error",
                                      None,
                                      [step_id |-> current_journey.steps[k].id,
                                       journey_id |-> journey_id], now),
                            "agent", "conversation_continued", None,
                            [next_step |-> r.status, journey_id |-> journey_id],
                            now)
                ELSE /\ current_journey' =
                          [current_journey EXCEPT !.steps[k].status = "completed"]
                     /\ audit_log' =
                          log_event(audit_log, "agent", "conversation_continued",
                                    None, [next_step |-> r.status,
                                           journey_id |-> journey_id], now)
  /\ UNCHANGED <<now, fs, ledger, journey_store, intake_store, returned, pc,
                 loc, requests, dirs>>

NextAgent ==
  \/ Tick
  \/ \E i \in Intents, d \in DaysAgo : start_conversation(i, d)
  \/ \E j \in AgentJourneyIds : continue_conversation(j)

SpecAgent == Init /\ [][NextAgent]_vars

-----------------------------------------------------------------------------
(* The orchestrator called directly by a script, as the demos call it: the   *)
(* script builds an Intake from a payload, plans a journey, prefills a form. *)

\* the payload an Intake is built from: the groups of models.Intake, and a
\* carer_info group, which models.Intake does not declare
Payload(parent1, parent2, baby, applicant, employment, disaster, housing, carer_info) ==
  [parent1 |-> parent1, parent2 |-> parent2, baby |-> baby,
   applicant |-> applicant, employment |-> employment,
   disaster |-> disaster, housing |-> housing, carer_info |-> carer_info]

\* Intake(**payload): pydantic keeps the declared fields and ignores the rest
ParseIntake(payload) ==
  Intake(payload.parent1, payload.parent2, payload.baby, payload.applicant,
         payload.employment, payload.disaster, payload.housing)

\* every combination of populated groups
GroupPayloads ==
  {Payload(parent1, None, baby, applicant, employment, disaster, None, carer_info) :
     parent1 \in {None, Jane},
     baby \in {None, Baby(NoValue, "2025-08-28", "Westmead Hospital")},
     applicant \in {None, Person("Sam Roe", "1985-05-05")},
     employment \in {None, Employment("Acme", "2025-07-31", NoValue)},
     disaster \in {None, Disaster("flood", "2025-03-01")},
     carer_info \in {None, [care_recipient |-> "Pat Roe"]}}

\* birth payloads that differ in the names, the dates and the other fields
BirthPayloads ==
  {Payload(parent1, parent2, baby, None, None, None, housing, None) :
     parent1 \in {Jane, Person("Jane Doe", "1991-02-02")},
     parent2 \in {None, Person("John Doe", "1989-09-09")},
     baby \in {Baby(NoValue, "2025-08-28", "Westmead Hospital"),
               Baby("Ava", "2025-08-28", NoValue),
               Baby("Ava", "2025-08-29", "Westmead Hospital")},
     housing \in {None, Housing("renting")}}

\* one applicant after a job loss and after a disaster, the optional
\* last_work_date and disaster date left out
UndatedPayloads ==
  {Payload(None, None, None, Person("Sam Roe", "1985-05-05"),
           Employment("Acme", NoValue, NoValue), None, None, None),
   Payload(None, None, None, Person("Sam Roe", "1985-05-05"),
           None, Disaster("flood", NoValue), None, None)}

Payloads == GroupPayloads \cup BirthPayloads \cup UndatedPayloads

PlanRequest(payload, jurisdiction) ==
  [op |-> "plan_journey", payload |-> payload, jurisdiction |-> jurisdiction]

PrefillRequest(journey_id, step_id, payload) ==
  [op |-> "prefill_form", journey_id |-> journey_id, step_id |-> step_id,
   payload |-> payload]

\* the jurisdictions scripts plan for
Jurisdictions == {"NSW", "VIC"}

\* the journey plan_journey returns for a payload at the start
PlannedJourney(payload, jurisdiction) ==
  Journey(_generate_journey_id(ParseIntake(payload), 0),
          _determine_life_event(ParseIntake(payload)), jurisdiction)

\* a plan followed by the prefill of one step of the planned journey, with
\* the journey's own intake
OwnStepScripts ==
  UNION {{<<PlanRequest(p, "NSW"),
            PrefillRequest(PlannedJourney(p, "NSW").id,
                           PlannedJourney(p, "NSW").steps[k].id, p)>> :
            k \in 1..Len(PlannedJourney(p, "NSW").steps)} : p \in Payloads}

\* the scripts: two plans one after the other, one prefill of a step, or a
\* plan and the prefill of one of its steps
Scripts ==
  {<<PlanRequest(p, "NSW"), PlanRequest(q, jur)>> :
     p \in Payloads, q \in Payloads, jur \in Jurisdictions}
  \cup {<<PrefillRequest(j, s, p)>> :
          j \in FamilyJourneyIds, s \in SchemaSteps \cup RequestSteps,
          p \in Payloads}
  \cup OwnStepScripts

InitCalls ==
  /\ now = 0
  /\ fs = <<>>
  /\ audit_log = <<>>
  /\ ledger = <<>>
  /\ journey_store = <<>>
  /\ intake_store = <<>>
  /\ resp = [op |-> "none"]
  /\ returned = {}
  /\ pc = [p \in Procs |-> "idle"]
  /\ loc = [p \in Procs |-> NoLocals]
  /\ requests \in Scripts
  /\ dirs = {}
  /\ current_journey = None

\* journey = orchestrator.plan_journey(Intake(**payload), jurisdiction)
call_plan_journey ==
  /\ requests # <<>>
  /\ Head(requests).op = "plan_journey"
  /\ Len(audit_log) < MaxLog
  /\ LET intake == ParseIntake(Head(requests).payload)
         plan == plan_journey(fs, audit_log, intake,
                              Head(requests).jurisdiction, now, "none")
     IN /\ fs' = plan.fs
        /\ audit_log' = plan.audit_log
        /\ resp' = [op |-> "plan_journey", payload |-> Head(requests).payload,
                    jurisdiction |-> Head(requests).jurisdiction,
                    journey |-> plan.journey]
  /\ requests' = Tail(requests)
  /\ dirs' = get_vault_path(dirs, resp'.journey.id)
  /\ UNCHANGED <<now, ledger, journey_store, intake_store, returned, pc, loc,
                 current_journey>>

\* prefill_response = orchestrator.prefill_form(journey_id, step_id, intake)
call_prefill_form ==
  /\ requests # <<>>
  /\ Head(requests).op = "prefill_form"
  /\ LET intake == ParseIntake(Head(requests).payload)
         r == prefill_form(fs, Head(requests).journey_id,
                           Head(requests).step_id, intake, now)
     IN /\ fs' = r.fs
        /\ resp' = IF r.raised
                   THEN [op |-> "prefill_form", raised |-> TRUE,
                         step_id |-> Head(requests).step_id]
                   ELSE [op |-> "prefill_form", raised |-> FALSE,
                         step_id |-> Head(requests).step_id,
                         payload |-> Head(requests).payload,
                         form_id |-> r.form_id, data |-> r.data,
                         review |-> r.review]
  /\ requests' = Tail(requests)
  /\ UNCHANGED <<now, audit_log, ledger, journey_store, intake_store,
                 returned, pc, loc, dirs, current_journey>>

NextCalls ==
  \/ Tick
  \/ call_plan_journey
  \/ call_prefill_form

SpecCalls == InitCalls /\ [][NextCalls]_vars

-----------------------------------------------------------------------------
(* Claims *)

Range(seq) == {seq[k] : k \in 1..Len(seq)}

IsPrefix(a, b) == Len(a) <= Len(b) /\ SubSeq(b, 1, Len(a)) = a

\* the status of step step_id of a stored journey, per position
StatusOf(store, j, k) == store[j].steps[k].status

\* C1: a step of a stored journey starts pending, and once it is completed or
\* failed it never returns to pending or in_progress, whatever API call follows
C1_StatusNeverMovesBackward ==
  [][ /\ \A j \in DOMAIN journey_store' \ DOMAIN journey_store :
           \A k \in 1..Len(journey_store'[j].steps) :
              StatusOf(journey_store', j, k) = "pending"
      /\ \A j \in DOMAIN journey_store \cap DOMAIN journey_store' :
           \A k \in 1..Len(journey_store[j].steps) :
           \A m \in 1..Len(journey_store'[j].steps) :
              ( /\ journey_store[j].steps[k].id = journey_store'[j].steps[m].id
                /\ StatusOf(journey_store, j, k) \in {"completed", "failed"} )
              => StatusOf(journey_store', j, m) \notin {"pending", "in_progress"}
    ]_vars

\* C2: every consent a log_consent call has returned verifies for each of its
\* scopes exactly while now < granted_at + ttl_days, whatever else has happened
C2_ReturnedConsentVerifies ==
  \A r \in returned : \A k \in 1..Len(r.consent_scope) :
     verify_consent(ledger, r.consent_id, r.consent_scope[k], now)
       <=> (now < r.granted_at + timedelta(CONSENT_TTL_DAYS))

\* C3: when two concurrent log_consent calls that read the same ledger
\* snapshot have both returned, the ledger is that snapshot plus the record of
\* only one of them: the later write discarded the other call's record
C3_LostUpdate ==
  \A p \in Procs, q \in Procs :
     ( /\ p # q
       /\ pc[p] = "done" /\ pc[q] = "done"
       /\ loc[p].snapshot = loc[q].snapshot
       /\ loc[p].consent_data # loc[q].consent_data )
     => /\ Len(ledger) = Len(loc[p].snapshot) + 1
        /\ \/ ledger = Append(loc[p].snapshot, loc[p].consent_data)
           \/ ledger = Append(loc[q].snapshot, loc[q].consent_data)

\* both calls returned their consent ids, the ledger holds one of the records
C3_Witness ==
  \E p \in Procs, q \in Procs :
     /\ p # q
     /\ pc[p] = "done" /\ pc[q] = "done"
     /\ {loc[p].consent_data.consent_id, loc[q].consent_data.consent_id}
          \subseteq {r.consent_id : r \in returned}
     /\ loc[p].consent_data.consent_id # loc[q].consent_data.consent_id
     /\ loc[p].consent_data \notin Range(ledger)
     /\ loc[q].consent_data \in Range(ledger)

\* C4: with calls run one at a time, no operation removes or modifies a record
\* of the consent ledger: every step leaves the ledger as it is or appends one
\* record, so an expired consent stays in the ledger
C4_LedgerOnlyGrows ==
  [][ \/ ledger' = ledger
      \/ /\ Len(ledger') = Len(ledger) + 1
         /\ IsPrefix(ledger, ledger')
    ]_vars

\* a second consent was appended behind a first one, the first has expired
\* and is still in the ledger after a sweep
C4_Witness ==
  /\ Len(ledger) = 2
  /\ ~ConsentLive(ledger[1], now)
  /\ resp.op = "cleanup"

\* C5: every artifact stored for a journey J (intake, prefill, submission) is
\* in the namespace of J that list_artifacts(J) enumerates
C5_ArtifactsInOneNamespace ==
  \A p \in DOMAIN fs : p \in list_artifacts(fs, p.journey)

\* C6: only the sweep deletes artifacts, and when it removes a journey no
\* intake, prefill or submission artifact of that journey remains
C6_SweepRemovesWholeJourney ==
  [][ /\ (DOMAIN fs \subseteq DOMAIN fs') \/ cleanup_expired_data
      /\ \A p \in DOMAIN fs \ DOMAIN fs' :
           \A q \in DOMAIN fs' : q.journey # p.journey
    ]_vars

\* the journeys that have a namespace below _artifacts/vault
VaultJourneys(files) ==
  {p.journey : p \in {q \in DOMAIN files : q.root = "_artifacts/vault"}}

\* C7: the sweep removes the namespace of a journey iff its intake artifact is
\* readable and its created_at lies more than ttl_days before now; every other
\* namespace keeps all its files unchanged
C7_SweepRemovesExactlyExpired ==
  [][ cleanup_expired_data =>
        \A j \in VaultJourneys(fs) :
           LET strictlyOlder ==
                 /\ IntakePath(j) \in DOMAIN fs
                 /\ fs[IntakePath(j)] # Corrupt
                 /\ fs[IntakePath(j)].created_at + timedelta(CLEANUP_TTL_DAYS) < now
           IN IF strictlyOlder
              THEN j \notin VaultJourneys(fs')
              ELSE \A p \in list_artifacts(fs, j) :
                      p \in DOMAIN fs' /\ fs'[p] = fs[p]
    ]_vars

\* a sweep removed an expired journey and kept a younger one
C7_Witness ==
  /\ resp.op = "cleanup"
  /\ resp.removed # {}
  /\ \E j \in VaultJourneys(fs) :
        /\ fs[IntakePath(j)] # Corrupt
        /\ fs[IntakePath(j)].created_at + timedelta(CLEANUP_TTL_DAYS) >= now

\* C8 as claimed: every completed save goes to a path that held no artifact,
\* so a document stored at a path is never replaced by another document
C8_NeverEditedInPlace ==
  [][ \A p \in DOMAIN fs \cap DOMAIN fs' :
         fs'[p] # Corrupt => fs'[p] = fs[p] ]_vars

\* the document d is one a save addressed to path p writes at time t
WrittenTo(p, d, t) ==
  \/ d = Corrupt /\ p.sub \in {"intake", "submissions"}
  \/ /\ d # Corrupt
     /\ d.created_at = t
     /\ \/ /\ d.type = "intake"
           /\ p.root = "_artifacts/vault" /\ p.sub = "intake"
           /\ p.name = <<"intake.json">>
           /\ p.journey = _generate_journey_id(d.data.intake, t)
        \/ /\ d.type = "prefill"
           /\ p.root = "vault" /\ p.sub = "prefill"
           /\ p.name = <<d.data.step_id, "_prefill.json">>
           /\ p.journey = d.data.journey_id
        \/ /\ d.type = "submission"
           /\ p.root = "vault" /\ p.sub = "submissions"
           /\ p.name = <<d.data.step_id, "_submission.json">>
           /\ p.journey = d.data.journey_id

\* C8 amended: the path of an artifact is fixed by its journey, kind and step,
\* and the content at a path changes only by a save addressed to that path,
\* which replaces the document in place; each step writes at most one path
C8_OverwrittenOnlyByOwnSave ==
  [][ LET written == {p \in DOMAIN fs' : p \notin DOMAIN fs \/ fs'[p] # fs[p]}
      IN /\ Cardinality(written) <= 1
         /\ \A p \in written : WrittenTo(p, fs'[p], now)
    ]_vars

\* two submissions of one step were logged at different times, and the one
\* file of that step holds the later one
C8_Witness ==
  \E a \in 1..Len(audit_log), b \in 1..Len(audit_log) :
     /\ a < b
     /\ audit_log[a].action = "form_submitted"
     /\ audit_log[b].action = "form_submitted"
     /\ audit_log[a].metadata.journey_id = audit_log[b].metadata.journey_id
     /\ audit_log[a].metadata.step_id = audit_log[b].metadata.step_id
     /\ audit_log[a].timestamp < audit_log[b].timestamp
     /\ LET p == SubmissionPath(audit_log[b].metadata.journey_id,
                                audit_log[b].metadata.step_id)
        IN /\ p \in DOMAIN fs
           /\ fs[p].data.reference = audit_log[b].metadata.reference
           /\ fs[p].created_at = audit_log[b].timestamp

\* C9: every step leaves the audit log as it is or appends one event at its
\* end; a log_event call appends exactly one event and returns its hash, the
\* digest of its other fields
C9_AuditLogAppendOnly ==
  [][ /\ \/ audit_log' = audit_log
         \/ Len(audit_log') = Len(audit_log) + 1 /\ IsPrefix(audit_log, audit_log')
      /\ call_log_event =>
           LET e == audit_log'[Len(audit_log')] IN
           /\ Len(audit_log') = Len(audit_log) + 1
           /\ resp'.result = e.hash
           /\ e.hash = sha256([timestamp |-> e.timestamp, actor |-> e.actor,
                               action |-> e.action, consent_id |-> e.consent_id,
                               metadata |-> e.metadata])
           /\ e.timestamp = now /\ e.action = "test_action"
    ]_vars

\* a log_event call appended behind earlier events and returned the hash
C9_Witness ==
  /\ resp.op = "log_event"
  /\ Len(audit_log) >= 2
  /\ resp.result = audit_log[Len(audit_log)].hash
  /\ audit_log[Len(audit_log)].action = "test_action"

\* C10: a plan_journey call that fails leaves no intake artifact and no audit
\* event behind: files and audit log are as before the call
C10_PlanFailureHasNoSideEffect ==
  [][ \A i \in Intakes, f \in Faults :
        ( /\ create_intake(i, f)
          /\ plan_journey(fs, audit_log, i, "NSW", now, f).raised )
        => /\ fs' = fs
           /\ audit_log' = audit_log
           /\ resp'.status = 500
           /\ UNCHANGED <<journey_store, intake_store>>
    ]_vars

\* the audit log holds a form_submitted event for step step_id of journey j
SubmissionLogged(log, j, step_id) ==
  \E k \in 1..Len(log) :
     /\ log[k].action = "form_submitted"
     /\ log[k].metadata.journey_id = j
     /\ log[k].metadata.step_id = step_id

\* the steps of the stored journeys that are completed, as <<journey, position>>
CompletedSteps(store) ==
  {jk \in {<<j, k>> : j \in DOMAIN store, k \in 1..2} :
     /\ jk[2] <= Len(store[jk[1]].steps)
     /\ StatusOf(store, jk[1], jk[2]) = "completed"}

\* C11: a step of a stored journey is completed only if a form_submitted event
\* for it is in the audit log; the call that completes it has written the
\* submission artifact of that journey and step and appended that event; and
\* a submit that ends without appending the event leaves every status as it was
C11_CompletedOnlyAfterSubmission ==
  [][ /\ \A jk \in CompletedSteps(journey_store') :
           SubmissionLogged(audit_log', jk[1], journey_store'[jk[1]].steps[jk[2]].id)
      /\ \A jk \in CompletedSteps(journey_store') \ CompletedSteps(journey_store) :
           LET step_id == journey_store'[jk[1]].steps[jk[2]].id
               p == SubmissionPath(jk[1], step_id)
               e == audit_log'[Len(audit_log')]
           IN /\ p \in DOMAIN fs'
              /\ fs'[p] # Corrupt
              /\ fs'[p].type = "submission"
              /\ fs'[p].created_at = now
              /\ fs'[p].data.journey_id = jk[1]
              /\ fs'[p].data.step_id = step_id
              /\ Len(audit_log') = Len(audit_log) + 1
              /\ e.action = "form_submitted"
              /\ e.timestamp = now
              /\ e.metadata.journey_id = jk[1]
              /\ e.metadata.step_id = step_id
              /\ e.metadata.reference = fs'[p].data.reference
      /\ \A j \in FamilyJourneyIds, s \in RequestSteps, b \in FormBodies,
            f \in Faults :
           (post_submit(j, s, b, f) /\ audit_log' = audit_log)
             => journey_store' = journey_store
    ]_vars

\* birth_reg was submitted and completed, its event is in the log, and a
\* later submit of the step failed after it had truncated the artifact; the
\* step is still completed
C11_Witness ==
  \E j \in DOMAIN journey_store :
     /\ StatusOf(journey_store, j, 1) = "completed"
     /\ SubmissionLogged(audit_log, j, journey_store[j].steps[1].id)
     /\ resp.op = "submit" /\ resp.status = 500
     /\ fs[SubmissionPath(j, journey_store[j].steps[1].id)] = Corrupt

\* C12: every change of a step's status is one of pending -> in_progress,
\* in_progress -> completed, pending -> failed, in_progress -> failed
C12_StepStateMachine ==
  [][ \A j \in DOMAIN journey_store \cap DOMAIN journey_store' :
        \A k \in 1..Len(journey_store[j].steps) :
           LET before == StatusOf(journey_store, j, k)
               after == StatusOf(journey_store', j, k)
           IN (k <= Len(journey_store'[j].steps) /\ after # before)
                => <<before, after>> \in
                     {<<"pending", "in_progress">>, <<"in_progress", "completed">>,
                      <<"pending", "failed">>, <<"in_progress", "failed">>}
    ]_vars

\* the payload is a birth intake: baby and parent1 are populated
IsBirthPayload(p) == p.baby # None /\ p.parent1 # None

\* the full name of an optional person
NameOf(person) == IF person = None THEN NoValue ELSE person.full_name

\* C13: two plan_journey calls, at any times, with birth intakes that agree
\* on baby DOB, parent1 name and parent2 name return the same journey id
C13_SameStableFieldsSameId ==
  [][ (call_plan_journey /\ resp.op = "plan_journey")
        => LET a == resp.payload
               b == resp'.payload
           IN ( /\ IsBirthPayload(a) /\ IsBirthPayload(b)
                /\ a.baby.dob = b.baby.dob
                /\ a.parent1.full_name = b.parent1.full_name
                /\ NameOf(a.parent2) = NameOf(b.parent2) )
              => resp'.journey.id = resp.journey.id
    ]_vars

\* two plans at different times of birth intakes with two parents gave one
\* journey id; the later intake differs from the stored one in other fields
C13_Witness ==
  /\ resp.op = "plan_journey"
  /\ Len(audit_log) = 2
  /\ audit_log[1].metadata.journey_id = audit_log[2].metadata.journey_id
  /\ audit_log[1].timestamp < audit_log[2].timestamp
  /\ IsBirthPayload(resp.payload)
  /\ resp.payload.parent2 # None
  /\ resp.payload.baby.name = "Ava"
  /\ resp.payload.housing # None

\* the classification the priority rules give for the groups of a payload
ExpectedLifeEvent(p) ==
  IF p.baby # None /\ p.parent1 # None THEN "baby_just_born"
  ELSE IF p.employment # None /\ p.applicant # None THEN "job_loss"
  ELSE IF p.disaster # None /\ p.applicant # None THEN "disaster_recovery"
  ELSE IF p.applicant # None /\ p.carer_info # None THEN "carer_support"
  ELSE "baby_just_born"

\* C14: for every combination of populated groups the journey is classified
\* by the first matching rule: baby+parent1, employment+applicant,
\* disaster+applicant, applicant+carer info, else baby_just_born
C14_FirstMatchingRuleWins ==
  resp.op = "plan_journey"
    => resp.journey.life_event = ExpectedLifeEvent(resp.payload)

\* the ids of the steps of a journey, in order
StepIds(journey) == [k \in 1..Len(journey.steps) |-> journey.steps[k].id]

\* C15: an intake with applicant and carer information and no baby+parent1,
\* employment or disaster group is planned as carer_support with the steps
\* carer_payment, carer_allowance
C15_CarerIntakePlannedAsCarerSupport ==
  ( /\ resp.op = "plan_journey"
    /\ resp.payload.applicant # None /\ resp.payload.carer_info # None
    /\ ~IsBirthPayload(resp.payload)
    /\ resp.payload.employment = None /\ resp.payload.disaster = None )
  => /\ resp.journey.life_event = "carer_support"
     /\ StepIds(resp.journey) = <<"carer_payment", "carer_allowance">>

\* C16: the planned journey holds exactly the ordered steps of its life
\* event, with ids unique within the journey and every step pending
C16_FixedStepsAllPending ==
  resp.op = "plan_journey"
    => LET journey == resp.journey IN
       /\ journey.life_event = "baby_just_born"
            => StepIds(journey) = <<"birth_reg", "medicare_enrolment">>
       /\ journey.life_event = "job_loss"
            => StepIds(journey) = <<"unemployment_centrelink", "job_service_provider">>
       /\ journey.life_event = "disaster_recovery"
            => StepIds(journey) =
                 <<"emergency_disaster_payment", "emergency_housing_assistance">>
       /\ Cardinality(Range(StepIds(journey))) = Len(journey.steps)
       /\ \A k \in 1..Len(journey.steps) : journey.steps[k].status = "pending"
       /\ journey.jurisdiction = resp.jurisdiction

\* a disaster journey was planned for another jurisdiction
C16_Witness ==
  /\ resp.op = "plan_journey"
  /\ resp.journey.life_event = "disaster_recovery"
  /\ resp.jurisdiction = "VIC"
  /\ Len(resp.journey.steps) = 2

\* the value at a two-segment source path of an intake, None where the group
\* or the value is absent
Resolved(intake, source) ==
  IF intake[source[1]] = None THEN NoValue ELSE intake[source[1]][source[2]]

\* C17: the data prefill_form returns has exactly one key per declared field
\* whose source path resolves, mapped to the resolved value, no key for any
\* other field, and the review payload's fields equal data
C17_PrefillDataIsResolvedFields ==
  (resp.op = "prefill_form" /\ ~resp.raised)
    => LET intake == ParseIntake(resp.payload)
           fields == _load_form_schema(resp.step_id).fields
           hits == {k \in 1..Len(fields) :
                      Resolved(intake, fields[k].source) # NoValue}
       IN /\ DOMAIN resp.data = {fields[k].id : k \in hits}
          /\ \A k \in hits :
                resp.data[fields[k].id] = Resolved(intake, fields[k].source)
          /\ resp.review.fields = resp.data

\* a birth registration was prefilled from an intake without parent1: the
\* baby's date is in the data, the required parent1_full_name is not
C17_Witness ==
  /\ resp.op = "prefill_form" /\ ~resp.raised
  /\ resp.step_id = "birth_reg"
  /\ "baby_dob" \in DOMAIN resp.data
  /\ "parent1_full_name" \notin DOMAIN resp.data

\* the statuses of the steps of every stored journey
Statuses(store) ==
  [j \in DOMAIN store |->
     [k \in 1..Len(store[j].steps) |-> store[j].steps[k].status]]

\* C18: a prefill, for any journey and step and however often, leaves the
\* status of every step of every journey as it was
C18_PrefillKeepsStatus ==
  [][ \A j \in JourneyIds, s \in RequestSteps :
        post_prefill(j, s) => Statuses(journey_store') = Statuses(journey_store)
    ]_vars

\* birth_reg was prefilled after it had been submitted: it is still completed
\* and the other step is still pending
C18_Witness ==
  \E j \in DOMAIN journey_store :
     /\ resp.op = "prefill" /\ resp.status = 200
     /\ StatusOf(journey_store, j, 1) = "completed"
     /\ StatusOf(journey_store, j, 2) = "pending"
     /\ PrefillPath(j, "birth_reg") \in DOMAIN fs
     /\ SubmissionPath(j, "birth_reg") \in DOMAIN fs
     /\ fs[PrefillPath(j, "birth_reg")].created_at
          > fs[SubmissionPath(j, "birth_reg")].created_at

\* C19: verify_consent(consent_id, scope) is true iff the ledger holds a
\* record with that id whose scope list contains the scope and for which
\* now < granted_at + ttl_days; so it is false for an unknown id, for a scope
\* that was not granted and at the instant now = granted_at + ttl_days
C19_VerifyIffLiveRecordCoversScope ==
  [][ \A c \in QueryConsentIds, s \in QueryScopes :
        call_verify_consent(c, s)
          => /\ resp'.result =
                  (\E k \in 1..Len(ledger) :
                      /\ ledger[k].consent_id = c
                      /\ s \in Range(ledger[k].consent_scope)
                      /\ now < ledger[k].granted_at
                                 + ledger[k].ttl_days * TicksPerDay)
             /\ (\A k \in 1..Len(ledger) : ledger[k].consent_id # c)
                  => ~resp'.result
             /\ (\A k \in 1..Len(ledger) :
                    ledger[k].consent_id = c
                      => \/ s \notin Range(ledger[k].consent_scope)
                         \/ now = ledger[k].granted_at
                                    + ledger[k].ttl_days * TicksPerDay)
                  => ~resp'.result
    ]_vars

\* a granted scope was verified at the very instant granted_at + ttl_days
\* and the answer was false
C19_Witness ==
  /\ resp.op = "verify_consent"
  /\ ~resp.result
  /\ \E k \in 1..Len(ledger) :
        /\ ledger[k].consent_id = resp.consent_id
        /\ resp.required_scope \in Range(ledger[k].consent_scope)
        /\ resp.at = ledger[k].granted_at + ledger[k].ttl_days * TicksPerDay

\* the step is unknown to the stored journey or to the schema registry
UnknownStep(j, s) ==
  \/ s \notin Range(StepIds(journey_store[j]))
  \/ s \notin SchemaSteps

\* C20: a prefill or submit request for a stored journey that names an
\* unknown step ends in a 404, persists no artifact, appends no audit event
\* and changes no step status
C20_UnknownStepIsNotFound ==
  [][ \A j \in DOMAIN journey_store, s \in RequestSteps :
        ( /\ UnknownStep(j, s)
          /\ \/ post_prefill(j, s)
             \/ \E b \in FormBodies, f \in Faults : post_submit(j, s, b, f) )
        => /\ resp'.status = 404
           /\ fs' = fs
           /\ audit_log' = audit_log
           /\ Statuses(journey_store') = Statuses(journey_store)
    ]_vars

\* C21: a plan_journey, prefill_form or submit_form call made for journey J1
\* leaves the artifacts of every other journey as they were: it creates,
\* overwrites and deletes no artifact outside the namespace of J1
C21_WritesStayInOwnJourney ==
  [][ \A j1 \in JourneyIds :
        ( \/ \E i \in Intakes, f \in IntakeFaults :
                create_intake(i, f) /\ _generate_journey_id(i, now) = j1
          \/ \E s \in SharedSteps : post_prefill(j1, s)
          \/ \E s \in SharedSteps, b \in FormBodies : post_submit(j1, s, b, "none") )
        => \A p \in DOMAIN fs \cup DOMAIN fs' :
              p.journey # j1 => (p \in DOMAIN fs /\ p \in DOMAIN fs' /\ fs'[p] = fs[p])
    ]_vars

\* two journeys hold an intake and a prefill of the same step each, written
\* at different times, and one of them a submission
C21_Witness ==
  \E j1 \in JourneyIds, j2 \in JourneyIds :
     /\ j1 # j2
     /\ {IntakePath(j1), IntakePath(j2), PrefillPath(j1, "birth_reg"),
         PrefillPath(j2, "birth_reg"), SubmissionPath(j1, "birth_reg")}
          \subseteq DOMAIN fs
     /\ fs[PrefillPath(j1, "birth_reg")].created_at
          < fs[PrefillPath(j2, "birth_reg")].created_at
     /\ fs[PrefillPath(j1, "birth_reg")].data.form_data
          # fs[PrefillPath(j2, "birth_reg")].data.form_data

\* the number of positions of seq that hold x
CountOf(seq, x) == Cardinality({k \in 1..Len(seq) : seq[k] = x})

\* C22: get_audit_trail returns exactly the well-formed events of the log
\* that pass every supplied filter (journey id, action, start <= timestamp
\* <= end), each as often as the log holds it, newest first; a corrupt line
\* is left out and takes no other event with it
C22_TrailIsFilteredNewestFirst ==
  resp.op = "get_audit_trail"
    => LET result == resp.result
           j == resp.request.journey_id
           a == resp.request.action
           s == resp.request.start_date
           e == resp.request.end_date
           Wanted(x) ==
             /\ x # CorruptLine
             /\ j # NoJourney =>
                  ("journey_id" \in DOMAIN x.metadata /\ x.metadata.journey_id = j)
             /\ a # NoValue => x.action = a
             /\ s # NoDate => s <= x.timestamp
             /\ e # NoDate => x.timestamp <= e
       IN /\ \A x \in TrailLines :
               CountOf(result, x) = IF Wanted(x) THEN CountOf(audit_log, x) ELSE 0
          /\ \A k \in 1..Len(result) : result[k] \in TrailLines
          /\ \A k \in 1..Len(result), m \in 1..Len(result) :
               k < m => result[k].timestamp >= result[m].timestamp

\* a trail filtered by journey and by dates came from a log that has a
\* corrupt line between an older and a newer event of the journey: both
\* events are in the trail, the newer one first
C22_Witness ==
  /\ resp.op = "get_audit_trail"
  /\ resp.request.journey_id # NoJourney
  /\ resp.request.start_date # NoDate /\ resp.request.end_date # NoDate
  /\ Len(audit_log) = 3
  /\ audit_log[2] = CorruptLine
  /\ audit_log[1] # CorruptLine /\ audit_log[3] # CorruptLine
  /\ audit_log[1].timestamp < audit_log[3].timestamp
  /\ resp.result = <<audit_log[3], audit_log[1]>>

\* the intake artifact of journey j is missing or does not parse
IntakeUnreadable(files, j) ==
  IntakePath(j) \notin DOMAIN files \/ files[IntakePath(j)] = Corrupt

C23_WitnessMissing ==
  /\ resp.op = "cleanup"
  /\ resp.removed # {}
  /\ \E j \in dirs : IntakePath(j) \notin DOMAIN fs

\* C24: two plan_journey calls whose intakes are classified as different
\* life events return different journey ids
C24_LifeEventsNeverShareId ==
  [][ (call_plan_journey /\ resp.op = "plan_journey")
        => (resp'.journey.life_event # resp.journey.life_event
              => resp'.journey.id # resp.journey.id)
    ]_vars

\* C25: a POST /intake that answers with an error has created no journey:
\* the stores, the artifacts and the audit log are as before the request
C25_FailedIntakeCreatesNothing ==
  [][ \A i \in Intakes, f \in Faults :
        (create_intake(i, f) /\ resp'.status = 500)
          => /\ UNCHANGED <<journey_store, intake_store>>
             /\ fs' = fs
             /\ audit_log' = audit_log
    ]_vars

\* the consent ids of the consent_granted events of the log
GrantedInLog(log) ==
  {log[k].consent_id : k \in {h \in 1..Len(log) : log[h].action = "consent_granted"}}

\* the consent ids of the records of the ledger
GrantedInLedger(consents) == {consents[k].consent_id : k \in 1..Len(consents)}

\* C26: whenever no log_consent call is under way, the consent ledger and
\* the audit log hold the same consent ids
C26_LedgerAgreesWithAuditLog ==
  (\A p \in Procs : pc[p] \in {"idle", "done"})
    => GrantedInLedger(ledger) = GrantedInLog(audit_log)

\* C27: every form_submitted event for a journey id has a journey_created
\* event for that id before it in the audit log
C27_SubmitOnlyAfterJourneyCreated ==
  \A k \in 1..Len(audit_log) :
     audit_log[k].action = "form_submitted"
       => \E h \in 1..(k - 1) :
             /\ audit_log[h].action = "journey_created"
             /\ audit_log[h].metadata.journey_id = audit_log[k].metadata.journey_id

\* an intake whose plan failed after the intake file was written left no
\* journey to submit to; after a later intake that succeeded a submit was
\* accepted and logged
C27_Witness ==
  /\ Len(audit_log) = 2
  /\ audit_log[1].action = "journey_created"
  /\ audit_log[2].action = "form_submitted"
  /\ audit_log[1].timestamp > 0
  /\ fs[IntakePath(audit_log[2].metadata.journey_id)].created_at
       = audit_log[1].timestamp
  /\ resp.op = "submit" /\ resp.status = 200

\* C28: every step of a journey plan_journey returned has a schema: a
\* prefill of it with the journey's own intake does not fail on an unknown
\* step, and the prefill a script makes after its plan has not failed
C28_EveryPlannedStepHasSchema ==
  /\ resp.op = "plan_journey"
       => \A k \in 1..Len(resp.journey.steps) :
             /\ _load_form_schema(resp.journey.steps[k].id) # None
             /\ ~prefill_form(fs, resp.journey.id, resp.journey.steps[k].id,
                              ParseIntake(resp.payload), now).raised
  /\ (resp.op = "prefill_form" /\ audit_log # <<>>)
       => LET planned == audit_log[1].metadata IN
          resp.step_id \in Range(StepIds(Journey(planned.journey_id,
                                                 planned.life_event,
                                                 planned.jurisdiction)))
            => ~resp.raised

\* a job-loss journey was planned and its second step was prefilled from
\* the journey's own intake into the namespace of the journey
C28_Witness ==
  /\ resp.op = "prefill_form" /\ ~resp.raised
  /\ resp.step_id = "job_service_provider"
  /\ Len(audit_log) = 1
  /\ audit_log[1].metadata.life_event = "job_loss"
  /\ PrefillPath(audit_log[1].metadata.journey_id, "job_service_provider")
       \in DOMAIN fs
  /\ "applicant_full_name" \in DOMAIN resp.data

\* C29: a continue_conversation call for the agent's active journey marks
\* the first step that is not completed as completed and leaves the other
\* steps alone, and answers journey_complete once no such step is left
C29_ContinueCompletesNextStep ==
  [][ \A j \in AgentJourneyIds :
        ( /\ continue_conversation(j)
          /\ current_journey # None
          /\ current_journey.id = j )
        => IF Incomplete(current_journey) = {}
           THEN resp'.status = "journey_complete"
           ELSE current_journey' =
                  [current_journey EXCEPT
                     !.steps[NextStepOf(current_journey)].status = "completed"]
    ]_vars

\* C30: a cleanup leaves the audit log, the consent ledger and with it
\* every verify_consent answer, the journey and intake stores and the clock
\* as they were, creates and rewrites no file, and deletes only files of
\* journeys whose intake is older than the TTL
C30_CleanupTouchesOnlyExpiredVault ==
  [][ cleanup_expired_data =>
        /\ UNCHANGED <<audit_log, ledger, journey_store, intake_store, now>>
        /\ \A c \in QueryConsentIds, sc \in QueryScopes :
              verify_consent(ledger', c, sc, now')
                = verify_consent(ledger, c, sc, now)
        /\ DOMAIN fs' \subseteq DOMAIN fs
        /\ \A p \in DOMAIN fs' : fs'[p] = fs[p]
        /\ \A p \in DOMAIN fs \ DOMAIN fs' :
              /\ p.root = "_artifacts/vault"
              /\ IntakePath(p.journey) \in DOMAIN fs
              /\ fs[IntakePath(p.journey)] # Corrupt
              /\ fs[IntakePath(p.journey)].created_at
                   + timedelta(CLEANUP_TTL_DAYS) < now
    ]_vars

\* a cleanup removed the vault namespace of a journey that is still stored
\* with a completed step, a granted consent and its events in the log
C30_Witness ==
  /\ resp.op = "cleanup"
  /\ resp.removed # {}
  /\ Len(ledger) = 1
  /\ Len(audit_log) = MaxLog
  /\ \E j \in resp.removed :
        /\ j \in DOMAIN journey_store /\ j \in DOMAIN intake_store
        /\ StatusOf(journey_store, j, 1) = "completed"
        /\ ledger[1].journey_id = j
        /\ IntakePath(j) \notin DOMAIN fs

====
